---------------------------- MODULE Spec2Model ----------------------------
(***************************************************************************)
(* The dither command line tool: src/index.js (PNG output, synchronous     *)
(* write) and src/unnamed/part_000 (GIF output through a piped stream,     *)
(* --silent, -p).  One run of the script is modelled: the top-level        *)
(* dispatch, dither(), the loadImage callback, the output stream and the   *)
(* reporting timer.                                                        *)
(***************************************************************************)
EXTENDS Integers, Sequences, FiniteSets, TLC

(***************************************************************************)
(* Bounds of the model.                                                    *)
(***************************************************************************)
MaxPaletteLen == 2
MaxDim == 2
MaxScale == 2
MaxChunks == 2
ScaleMaxDim == 11
ScaleMaxScale == 15

(***************************************************************************)
(* JavaScript values.  A string is a sequence of one-character strings,    *)
(* an array a sequence of values; every value carries its type.            *)
(***************************************************************************)
undefined == [t |-> "undefined", v |-> <<>>]
Str(s) == [t |-> "string", v |-> s]
Arr(a) == [t |-> "array", v |-> a]
null == <<>>

Truthy(x) == x.t = "array" \/ (x.t = "string" /\ x.v # <<>>)

\* a && b
And(a, b) == IF Truthy(a) THEN b ELSE a

\* a || b
Or(a, b) == IF Truthy(a) THEN a ELSE b

\* a ?? b
Nullish(a, b) == IF a.t = "undefined" THEN b ELSE a

Range(s) == {s[i] : i \in 1..Len(s)}

RECURSIVE Join(_, _)
Join(strs, sep) ==
  IF Len(strs) = 0 THEN <<>>
  ELSE IF Len(strs) = 1 THEN strs[1]
  ELSE strs[1] \o sep \o Join(Tail(strs), sep)

\* String.prototype.split with a one-character separator
RECURSIVE SplitFrom(_, _, _)
SplitFrom(s, sep, cur) ==
  IF Len(s) = 0 THEN <<cur>>
  ELSE IF Head(s) = sep THEN <<cur>> \o SplitFrom(Tail(s), sep, <<>>)
  ELSE SplitFrom(Tail(s), sep, Append(cur, Head(s)))

Split(s, sep) == SplitFrom(s, sep, <<>>)

(***************************************************************************)
(* hexToRgb: /^#?([a-f\d]{2})([a-f\d]{2})([a-f\d]{2})$/i and parseInt(.,16) *)
(***************************************************************************)
HexChars == <<"0","1","2","3","4","5","6","7","8","9","a","b","c","d","e","f">>
UpperHexChars == <<"0","1","2","3","4","5","6","7","8","9","A","B","C","D","E","F">>

IsHexChar(c) == c \in Range(HexChars) \cup Range(UpperHexChars)

HexVal(c) ==
  (CHOOSE i \in 1..16 : HexChars[i] = c \/ UpperHexChars[i] = c) - 1

ParseHexPair(a, b) == 16 * HexVal(a) + HexVal(b)

hexToRgb(hex) ==
  LET body == IF Len(hex) > 0 /\ hex[1] = "#" THEN Tail(hex) ELSE hex
  IN IF Len(body) = 6 /\ \A i \in 1..6 : IsHexChar(body[i])
     THEN << ParseHexPair(body[1], body[2]),
             ParseHexPair(body[3], body[4]),
             ParseHexPair(body[5], body[6]) >>
     ELSE null

(***************************************************************************)
(* JavaScript numbers are IEEE-754 doubles.  A positive double is kept as  *)
(* its binary exponent e and its 53-bit significand, the latter as three   *)
(* digits m = <<hi, mid, lo>> of 17, 18 and 18 bits (hi >= 2^16), worth    *)
(* (hi * 2^36 + mid * 2^18 + lo) * 2^(e - 52).  Division and               *)
(* multiplication round to nearest, ties to even.                          *)
(***************************************************************************)
Limb == 2^18
TopLimb == 2^17

\* the significand m plus one unit in the last place
NumSucc(e, m) ==
  IF m[3] + 1 < Limb THEN [e |-> e, m |-> <<m[1], m[2], m[3] + 1>>]
  ELSE IF m[2] + 1 < Limb THEN [e |-> e, m |-> <<m[1], m[2] + 1, 0>>]
  ELSE IF m[1] + 1 < TopLimb THEN [e |-> e, m |-> <<m[1] + 1, 0, 0>>]
  ELSE [e |-> e + 1, m |-> <<TopLimb \div 2, 0, 0>>]

\* round to nearest, ties to even: rest / whole is the fraction of a unit
\* in the last place that was cut off
NumRound(e, m, rest, whole) ==
  IF 2 * rest > whole \/ (2 * rest = whole /\ m[3] % 2 = 1)
  THEN NumSucc(e, m)
  ELSE [e |-> e, m |-> m]

\* floor(log2(n)) for n >= 1
Log2(n) == CHOOSE k \in 0..30 : 2^k <= n /\ (k = 30 \/ n < 2^(k + 1))

\* the double of an integer 1 <= n < 2^17
FromInt(n) == [e |-> Log2(n), m |-> <<n * 2^(16 - Log2(n)), 0, 0>>]

\* a / b for positive integers a and b
NumDiv(a, b) ==
  LET up == CHOOSE k \in 0..30 : b * 2^k <= a /\ a < b * 2^(k + 1)
      down == CHOOSE k \in 0..30 : a * 2^k >= b /\ (k = 0 \/ a * 2^(k - 1) < b)
      e == IF a >= b THEN up ELSE 0 - down
      n == IF a >= b THEN a ELSE a * 2^down
      d == IF a >= b THEN b * 2^up ELSE b
      hi == (n * (TopLimb \div 2)) \div d
      r1 == (n * (TopLimb \div 2)) % d
      mid == (r1 * Limb) \div d
      r2 == (r1 * Limb) % d
      lo == (r2 * Limb) \div d
      r3 == (r2 * Limb) % d
  IN NumRound(e, <<hi, mid, lo>>, r3, d)

\* k * x for a positive integer k and a double x
NumMul(k, x) ==
  LET p3 == x.m[3] * k
      p2 == x.m[2] * k + p3 \div Limb
      p1 == x.m[1] * k + p2 \div Limb
      l3 == p3 % Limb
      l2 == p2 % Limb
      t == Log2(p1) - 16
      cut == 2^t
      keep == Limb \div cut
      hi == p1 \div cut
      mid == (p1 % cut) * keep + l2 \div cut
      lo == (l2 % cut) * keep + l3 \div cut
  IN NumRound(x.e + t, <<hi, mid, lo>>, l3 % cut, cut)

NumLess(x, y) ==
  \/ x.e < y.e
  \/ /\ x.e = y.e
     /\ \E i \in 1..3 :
          /\ x.m[i] < y.m[i]
          /\ \A j \in 1..(i - 1) : x.m[j] = y.m[j]

\* Math.min
MathMin(x, y) == IF NumLess(y, x) THEN y ELSE x

(***************************************************************************)
(* The preset table of palettes.js: preset names, in the order of          *)
(* Object.keys, and each preset's list of hex colours.                     *)
(***************************************************************************)
PresetNames == << <<"b","w">>, <<"c","g","a">> >>

palettes ==
  ( <<"b","w">> :> << <<"#","0","0","0","0","0","0">>,
                      <<"#","f","f","f","f","f","f">> >> ) @@
  ( <<"c","g","a">> :> << <<"#","0","0","0","0","0","0">>,
                          <<"#","5","5","f","f","f","f">>,
                          <<"#","f","f","5","5","f","f">> >> )

\* palettes[name]
PaletteLookup(name) ==
  IF name.t = "string" /\ name.v \in DOMAIN palettes
  THEN Arr(palettes[name.v])
  ELSE undefined

(***************************************************************************)
(* The inputs of a run: the parsed command line and the input file.        *)
(***************************************************************************)
Progs == {"index.js", "part_000"}

InPath == <<"i","n">>
OutPath == <<"o","u","t">>
UnknownName == <<"n","o","p","e">>

\* colour texts a user may type, with the colour each one means (null: none)
SampleColours ==
  << [hex |-> <<"#","f","f","0","0","0","0">>, rgb |-> <<255, 0, 0>>],
     [hex |-> <<"0","0","F","F","7","f">>, rgb |-> <<0, 255, 127>>],
     [hex |-> <<"#","f","f","f">>, rgb |-> null] >>

ColourLists(maxLen) ==
  UNION {[1..n -> 1..Len(SampleColours)] : n \in 1..maxLen}

ListText(l) == Join([i \in 1..Len(l) |-> SampleColours[l[i]].hex], <<",">>)

ListColours(l) == [i \in 1..Len(l) |-> SampleColours[l[i]].rgb]

WellFormed(l) == \A i \in 1..Len(l) : SampleColours[l[i]].rgb # null

PaletteArgs(maxLen) ==
  {undefined, Str(<<>>)} \cup {Str(ListText(l)) : l \in ColourLists(maxLen)}

PresetArgs == {undefined, Str(PresetNames[1]), Str(UnknownName)}

Args(maxLen, flags, scales, altScales) ==
  [ l : flags, v : flags, silent : BOOLEAN, serpentine : flags,
    i : {undefined, Str(InPath)}, o : {undefined, Str(OutPath)},
    palette : PaletteArgs(maxLen), preset : PresetArgs, p : PresetArgs,
    s : scales, scale : altScales ]

\* the file named by -i: whether statSync succeeds, whether loadImage
\* resolves, and the image's size
Files(dims) ==
  [stat : BOOLEAN, image : {FALSE}, width : {1}, height : {1}]
  \cup [stat : BOOLEAN, image : {TRUE}, width : dims, height : dims]

VARIABLES
  prog,      \* which script runs
  args,      \* minimist's result
  file,      \* the input file
  pc,        \* "start", "loading" (loadImage pending), "done"
  silent,    \* the script's silent flag
  palette,   \* dither()'s palette constant
  out,       \* the lines printed so far
  thrown,    \* the exception that ended the run, or "none"
  loaded,    \* loadImage was called
  canvas,    \* the canvas created for the image
  quant,     \* the options handed to new RgbQuant
  encoded,   \* the size of the encoded output, 0 before encoding
  stream,    \* the write stream of the output file
  timer,     \* the reporting timeout is pending
  outFile    \* the output file on disk

vars == << prog, args, file, pc, silent, palette, out, thrown, loaded,
           canvas, quant, encoded, stream, timer, outFile >>

InitOver(argSet, fileSet) ==
  /\ prog \in Progs
  /\ args \in argSet
  /\ file \in fileSet
  /\ pc = "start"
  /\ silent = FALSE
  /\ palette = undefined
  /\ out = <<>>
  /\ thrown = "none"
  /\ loaded = FALSE
  /\ canvas = [made |-> FALSE]
  /\ quant = [made |-> FALSE]
  /\ encoded = 0
  /\ stream = [piped |-> FALSE, open |-> FALSE, pending |-> 0]
  /\ timer = FALSE
  /\ outFile = [exists |-> FALSE, size |-> 0]

Init ==
  InitOver(Args(MaxPaletteLen, BOOLEAN, {0, MaxScale}, {0}),
           Files({1, MaxDim}))

(***************************************************************************)
(* Printing.                                                               *)
(***************************************************************************)
\* status(text) for each text of lines, in order
status(sil, o, lines) == IF sil THEN o ELSE o \o lines

RECURSIVE PresetLines(_, _)
PresetLines(names, verbose) ==
  IF Len(names) = 0 THEN <<>>
  ELSE << <<"  ", names[1]>> >>
       \o (IF verbose THEN << <<"colours", palettes[names[1]]>> >> ELSE <<>>)
       \o PresetLines(Tail(names), verbose)

\* the lines of listPresets()
listPresets(verbose) ==
  << <<"Available presets:", <<>>>> >> \o PresetLines(PresetNames, verbose)

(***************************************************************************)
(* dither(), up to the call of loadImage.                                  *)
(***************************************************************************)
\* args.preset || args.p; index.js reads --preset alone
presetName == IF prog = "part_000" THEN Or(args.preset, args.p) ELSE args.preset

PresetMissingNever(preset) == FALSE

\* !preset
PresetMissing(preset) == ~Truthy(preset)

PaletteOfPresetFirst(explicit, name) ==
  Nullish(Nullish(And(name, PaletteLookup(name)),
                  And(explicit, Arr(Split(explicit.v, ",")))),
          Arr(<<>>))

\* (args.palette && args.palette.split(',')) ?? (name && palettes[name]) ?? []
PaletteOf(explicit, name) ==
  Nullish(Nullish(And(explicit, Arr(Split(explicit.v, ","))),
                  And(name, PaletteLookup(name))),
          Arr(<<>>))

\* --silent mutes the script that knows the flag, once dither() has read it
silentIn == prog = "part_000" /\ args.silent

\* the text printed when statSync of the input throws
CouldNotRead ==
  IF prog = "part_000" THEN "Could not read file: " ELSE "Could not read file:"

UnknownPresetLines ==
  << <<"Unknown preset: ", presetName.v>> >>
  \o listPresets(prog = "part_000" /\ args.v)

dither ==
  /\ silent' = silentIn
  /\ IF Truthy(presetName) /\ PresetMissing(PaletteLookup(presetName))
     THEN /\ out' = status(silentIn, out, UnknownPresetLines)
          /\ pc' = "done"
          /\ UNCHANGED << palette, loaded >>
     ELSE /\ palette' = PaletteOf(args.palette, presetName)
          /\ IF file.stat
             THEN /\ out' = status(silentIn, out,
                      << <<"Dithering: ", args.i.v>>, <<"Input size: ", <<>>>> >>)
                  /\ loaded' = TRUE
                  /\ pc' = "loading"
             ELSE /\ out' = status(silentIn, out,
                      << <<"Dithering: ", args.i.v>>,
                         <<CouldNotRead, args.i.v>> >>)
                  /\ loaded' = (prog = "index.js")
                  /\ pc' = IF prog = "index.js" THEN "loading" ELSE "done"

\* the script's top level
Main ==
  /\ pc = "start"
  /\ IF args.l
     THEN /\ out' = status(silent, out, listPresets(args.v))
          /\ pc' = "done"
          /\ UNCHANGED << silent, palette, loaded >>
     ELSE IF Truthy(args.i)
     THEN dither
     ELSE /\ out' = status(silent, out, << <<"usage", <<>>>> >>)
          /\ pc' = "done"
          /\ UNCHANGED << silent, palette, loaded >>
  /\ UNCHANGED << prog, args, file, thrown, canvas, quant, encoded, stream,
                  timer, outFile >>

(***************************************************************************)
(* The callback of loadImage(inputPath).then.                              *)
(***************************************************************************)
\* a || b on numbers; an absent option and 0 are both falsy
NumOr(a, b) == IF a # 0 THEN a ELSE b

\* Math.min(modifiedWidth / image.width, modifiedHeight / image.height)
Ratio(scale, width, height) ==
  MathMin(NumDiv(NumOr(scale, width), width),
          NumDiv(NumOr(scale, height), height))

\* createCanvas(image.width * ratio, image.height * ratio)
ScaledCanvas(scale, width, height) ==
  [ made |-> TRUE,
    width |-> NumMul(width, Ratio(scale, width, height)),
    height |-> NumMul(height, Ratio(scale, width, height)) ]

\* args.o || inputPath + '-dither.gif' ('-dither.png' in index.js)
outputPath ==
  Or(args.o, Str(args.i.v \o (IF prog = "part_000"
                              THEN <<"-","d","i","t","h","e","r",".","g","i","f">>
                              ELSE <<"-","d","i","t","h","e","r",".","p","n","g">>))).v

\* palette.map((color) => hexToRgb(color))
MapHexToRgb(pal) == [i \in 1..Len(pal) |-> hexToRgb(pal[i])]

LoadResolve ==
  /\ pc = "loading"
  /\ file.image
  /\ canvas' = ScaledCanvas(NumOr(args.s, args.scale), file.width, file.height)
  /\ IF palette.t # "array"
     THEN \* palette.map is not a function
          /\ thrown' = "TypeError"
          /\ pc' = "done"
          /\ UNCHANGED << quant, out, encoded, stream, timer, outFile >>
     ELSE /\ quant' = [ made |-> TRUE,
                        dithSerp |-> args.serpentine,
                        palette |-> MapHexToRgb(palette.v) ]
          /\ IF null \in Range(MapHexToRgb(palette.v))
             THEN \* rgbquant reads the channels of every entry it is given
                  /\ thrown' = "TypeError"
                  /\ pc' = "done"
                  /\ UNCHANGED << out, encoded, stream, timer, outFile >>
             ELSE /\ thrown' = thrown
                  /\ \E n \in 1..MaxChunks :
                       /\ encoded' = n
                       /\ IF prog = "index.js"
                          THEN \* fs.writeFileSync, then fs.statSync
                               /\ outFile' = [exists |-> TRUE, size |-> n]
                               /\ out' = out \o
                                    << <<"Output size: ", n>>,
                                       <<"Palette: ", <<>>>>,
                                       <<"Dithered: ", outputPath>> >>
                               /\ pc' = "done"
                               /\ UNCHANGED << stream, timer >>
                          ELSE \* encoder.createReadStream().pipe(...),
                               \* encoder.finish(), setTimeout(..., 1000)
                               /\ stream' = [piped |-> TRUE, open |-> FALSE,
                                             pending |-> n]
                               /\ timer' = TRUE
                               /\ pc' = "encoded"
                               /\ UNCHANGED << out, outFile >>
  /\ UNCHANGED << prog, args, file, silent, palette, loaded >>

\* loadImage rejects; nothing handles the rejection
LoadReject ==
  /\ pc = "loading"
  /\ ~file.image
  /\ thrown' = "LoadError"
  /\ pc' = "done"
  /\ UNCHANGED << prog, args, file, silent, palette, out, loaded, canvas,
                  quant, encoded, stream, timer, outFile >>

(***************************************************************************)
(* The output stream of part_000 and its reporting timer.                  *)
(***************************************************************************)
\* fs.createWriteStream opens the file
StreamOpen ==
  /\ stream.piped
  /\ ~stream.open
  /\ stream' = [stream EXCEPT !.open = TRUE]
  /\ outFile' = [exists |-> TRUE, size |-> 0]
  /\ UNCHANGED << prog, args, file, pc, silent, palette, out, thrown, loaded,
                  canvas, quant, encoded, timer >>

\* the stream writes one chunk of the encoder's output
StreamWrite ==
  /\ stream.open
  /\ stream.pending > 0
  /\ stream' = [stream EXCEPT !.pending = @ - 1]
  /\ outFile' = [outFile EXCEPT !.size = @ + 1]
  /\ UNCHANGED << prog, args, file, pc, silent, palette, out, thrown, loaded,
                  canvas, quant, encoded, timer >>

\* fs.statSync(outputPath) in the timeout's try block
OutputStats ==
  IF outFile.exists
  THEN << <<"Output size: ", outFile.size>>, <<"Percentage reduction: ", <<>>>> >>
  ELSE << <<"Could not read file:", outputPath>> >>

\* the callback of setTimeout(..., 1000)
Timeout ==
  /\ timer
  /\ timer' = FALSE
  /\ out' = status(silent, out,
                   OutputStats \o << <<"Final palette: ", <<>>>>,
                                     <<"Dithered: ", outputPath>> >>)
  /\ pc' = "done"
  /\ UNCHANGED << prog, args, file, silent, palette, thrown, loaded, canvas,
                  quant, encoded, stream, outFile >>

Next ==
  \/ Main
  \/ LoadResolve
  \/ LoadReject
  \/ StreamOpen
  \/ StreamWrite
  \/ Timeout

Spec == Init /\ [][Next]_vars

\* the runs that vary the image and the scale
InitScale ==
  InitOver({a \in Args(0, {FALSE}, 0..ScaleMaxScale, {0, 1}) :
              a.i # undefined /\ a.o = undefined /\ a.preset = undefined
              /\ a.p = undefined /\ ~a.silent},
           {f \in Files(1..ScaleMaxDim) : f.stat})

SpecScale == InitScale /\ [][Next]_vars

(***************************************************************************)
(* What the claims speak of.                                               *)
(***************************************************************************)
\* the invocation takes the -i mode
DitherRun == ~args.l /\ Truthy(args.i)

\* a preset is named and the preset table has no such name
UnknownPreset == Truthy(presetName) /\ presetName.v \notin DOMAIN palettes

\* the input file is readable and the loadImage callback has run
CallbackRan == file.stat /\ loaded /\ file.image /\ pc # "loading"

Printed(line) == \E i \in 1..Len(out) : out[i] = line

\* the explicit --palette value is the text of the colour list l
ExplicitList(l) == args.palette = Str(ListText(l))

\* nothing of the dithering has happened
NothingDithered ==
  ~loaded /\ ~canvas.made /\ ~quant.made /\ encoded = 0
  /\ ~stream.piped /\ ~outFile.exists

\* C2: whenever an explicit --palette list is given with -i, the palette
\* handed to the quantizer is that list's colours in the order given, also
\* when a preset is named beside it.
C2_ExplicitPaletteWins ==
  quant.made =>
    \A l \in ColourLists(MaxPaletteLen) :
      (WellFormed(l) /\ ExplicitList(l)) => quant.palette = ListColours(l)

C2_Witness ==
  /\ quant.made
  /\ outFile.exists
  /\ Truthy(presetName)
  /\ \E l \in ColourLists(MaxPaletteLen) :
       /\ Len(l) = 2
       /\ l[1] # l[2]
       /\ WellFormed(l)
       /\ ExplicitList(l)
       /\ quant.palette = ListColours(l)

\* C3: with --palette absent or empty the run still reaches the quantizer,
\* which is handed the named preset's colours in order, or the empty
\* palette when no preset is named.
C3_AbsentOrEmptyPaletteProceeds ==
  (CallbackRan /\ args.palette \in {undefined, Str(<<>>)}) =>
    /\ thrown = "none"
    /\ quant.made
    /\ quant.palette = IF Truthy(presetName)
                       THEN MapHexToRgb(palettes[presetName.v])
                       ELSE <<>>

\* C4: an explicit palette with a malformed entry makes the run fail with
\* InvalidPaletteEntry, and no dithered output is produced.
C4_MalformedEntryFails ==
  (CallbackRan /\ \E l \in ColourLists(MaxPaletteLen) :
                     ~WellFormed(l) /\ ExplicitList(l)) =>
    /\ thrown = "InvalidPaletteEntry"
    /\ encoded = 0
    /\ ~outFile.exists

C6_SizeReadAfterWrite ==
  \A i \in 1..Len(out) :
    out[i][1] = "Output size: " => out[i][2] = encoded

\* C7: with --silent nothing is printed, in the -l mode, the -i mode and
\* the usage mode alike (of the script that documents --silent).
C7_SilentPrintsNothing ==
  (prog = "part_000" /\ args.silent) => out = <<>>

\* the larger of two dimensions
MathMax(x, y) == IF NumLess(x, y) THEN y ELSE x

\* C8: with a positive scale s (-s, else --scale) the larger dimension of
\* the canvas equals s, so neither dimension exceeds s; both dimensions are
\* the source's times one ratio.  Without a scale the canvas has the source
\* image's width and height.
C8_ScaledCanvas ==
  canvas.made =>
    IF NumOr(args.s, args.scale) > 0
    THEN MathMax(canvas.width, canvas.height)
           = FromInt(NumOr(args.s, args.scale))
    ELSE /\ canvas.width = FromInt(file.width)
         /\ canvas.height = FromInt(file.height)

\* C9: when the stat of the -i path fails the run prints 'Could not read
\* file' and ends without loading the image, dithering or writing an output.
C9_UnreadableInputEndsRun ==
  (DitherRun /\ ~UnknownPreset /\ ~file.stat /\ pc # "start") =>
    /\ pc = "done"
    /\ Printed(<<CouldNotRead, args.i.v>>)
    /\ NothingDithered
=============================================================================
